---------------------------- MODULE Spec2Model ----------------------------
(***************************************************************************)
(* Model of the letsgosky.social SSH chat server (the last Go program of   *)
(* src/unnamed/part_001, lines 230-720): the shared message log, the vote  *)
(* ledger, the presence counter and the per-connection bubbletea model     *)
(* (input / selection mode, navigation, voting, refresh tick).             *)
(*                                                                         *)
(* Indices into the log are 0-based as in the Go code; the TLA+ sequence   *)
(* chatMessages is 1-based, so Go's chatMessages[i] is At(i).              *)
(***************************************************************************)
EXTENDS Integers, Sequences, FiniteSets, TLC

\* ------------------------------------------------------------------ bounds
\* Connections that exist over a run.
NumSessions == 2
\* Longest log of the session-level specifications (Spec, SpecLedger).
MaxLog == 4
\* Last second of the modelled time window.
MaxClock == 1
\* Chat messages submitted in the lock-level specification SpecAppend.
MaxAppends == 2
\* Most checkNewMessages commands in flight counted apart for a session.
MaxPending == 2

\* -------------------------------------------------------- program constants
\* ta.CharLimit = 280: the only place the 280-character limit is stated.
CharLimit == 280

Sessions == 1 .. NumSessions

\* ssh.Session.User(): the client-chosen user name of a connection.  Odd
\* sessions log in as "al", even ones as "bo", so that from three sessions
\* on two connections share one user name.
User(s) == IF s % 2 = 1 THEN "al" ELSE "bo"

Users == {User(s) : s \in Sessions}

\* ssh.Session.PublicKey(): nil for a password/anonymous login.
HasPublicKey(s) == s % 2 = 0

ErrNil == "nil"
ErrAlreadyVoted == "you have already voted this way"
ErrNotFound == "message not found"

RECURSIVE Repeat(_, _)
\* strings.Repeat(str, n), by halving.
Repeat(str, n) ==
    IF n = 0 THEN ""
    ELSE IF n % 2 = 0
    THEN LET half == Repeat(str, n \div 2) IN half \o half
    ELSE str \o Repeat(str, n - 1)

\* Values m.textarea.Value() may hold when Enter is handled: nothing typed,
\* only a blank, an ordinary text, and a text one character over CharLimit.
Texts == {"", " ", "hi", Repeat("x", CharLimit + 1)}

VARIABLES
    chatMessages,     \* the shared log, a sequence of Message
    userVotes,        \* user name -> (message id -> 1 | -1)
    onlineUsers,      \* presence counter
    now,              \* the wall clock, in seconds
    status,           \* per session: "new" | "on" | "quit"
    isSelectMode,     \* per session: model.isSelectMode
    selectedMessage,  \* per session: model.selectedMessage
    lastMessageCount, \* per session: model.lastMessageCount
    err,              \* per session: model.err
    pc,               \* per session: where its handler stands
    voteMutex,        \* holder of voteMutex (0: free)
    chatMutex,        \* writer holding chatMutex (0: free)
    loc,              \* per session: locals of the call in progress
    origin,           \* history: for each log entry, <<caller, its n-th call>>
    flipped,          \* history: some vote has replaced an opposite one
    lastVote,         \* history: the last voteMessage call that returned
    usersMutex,       \* holder of usersMutex (0: free)
    ignored,          \* history: the last key Update's mode test passed over
    pending           \* per session: checkNewMessages commands in flight

vars == <<chatMessages, userVotes, onlineUsers, now, status, isSelectMode,
          selectedMessage, lastMessageCount, err, pc, voteMutex, chatMutex,
          loc, origin, flipped, lastVote, usersMutex, ignored,
          pending>>

\* ------------------------------------------------------------ pure helpers

Digits == <<"0", "1", "2", "3", "4", "5", "6", "7", "8", "9">>

\* time.Now().Format("2006-01-02 15:04:05"): resolution of one second,
\* fixed width.  Only the seconds digit varies within the modelled window.
TimeFormat(t) == "2024-12-01 10:00:0" \o Digits[t + 1]

\* sha256 of the concatenation "%s%s%s" of user name, timestamp and content,
\* hex encoded.  The digest is modelled as collision free: it is kept as its
\* preimage, so two ids are equal exactly when the concatenations are.
generateUniqueMessageID(msg) ==
    "sha256:" \o msg.Username \o msg.Timestamp \o msg.Content

\* fmt.Sprintf("%x", sha256.Sum256(key.Marshal()))
PubKeyOf(s) == IF s # 0 /\ HasPublicKey(s) THEN "sha256:key" ELSE "N/A"

UsernameOf(s) == IF s # 0 THEN User(s) ELSE "Anonymous"

\* The Message addMessage builds (session 0 stands for a nil session).
NewMessage(s, message, system, timestamp) ==
    LET msg == [Username  |-> UsernameOf(s),
                Timestamp |-> timestamp,
                PubKey    |-> PubKeyOf(s),
                Content   |-> message,
                Upvotes   |-> 0,
                Downvotes |-> 0,
                UniqueID  |-> "",
                System    |-> system]
    IN  IF system THEN msg
        ELSE [msg EXCEPT !.UniqueID = generateUniqueMessageID(msg)]

\* chatMessages = append(chatMessages, msg)
AppendMessage(msgs, msg) == Append(msgs, msg)

\* addMessage as one critical section (chatMutex held from the first line
\* to the return): the log after the call.
addMessage(s, message, system) ==
    AppendMessage(chatMessages, NewMessage(s, message, system, TimeFormat(now)))

\* Go's chatMessages[i], 0-based.
At(i) == chatMessages[i + 1]

\* A Go map read: the zero value for a missing key.
MapGet(m, k) == IF k \in DOMAIN m THEN m[k] ELSE 0

MapPut(m, k, v) == [x \in (DOMAIN m) \cup {k} |-> IF x = k THEN v ELSE m[x]]

EmptyMap == [x \in {} |-> 0]

\* userVotes after `userVotes[username] = make(map[string]int)` when missing.
EnsureUser(votes, username) ==
    IF username \in DOMAIN votes THEN votes
    ELSE MapPut(votes, username, EmptyMap)

\* for i, msg := range chatMessages { if msg.UniqueID == messageID ...
\* the 1-based position of the first match, 0 when there is none.
FindMessage(msgs, messageID) ==
    LET hits == {i \in 1 .. Len(msgs) : msgs[i].UniqueID = messageID}
    IN  IF hits = {} THEN 0
        ELSE CHOOSE i \in hits : \A j \in hits : i <= j

\* Mutant of ApplyVote: the previous vote is not taken back.
ApplyVote_NoUndo(msg, forMessage, messageID, voteType) ==
    [msg EXCEPT !.Upvotes   = IF voteType > 0 THEN @ + 1 ELSE @,
                !.Downvotes = IF voteType > 0 THEN @ ELSE @ + 1]

\* Mutant of ApplyVote: every vote is taken for a flip, the opposite counter
\* is decremented whether or not a previous vote exists.
ApplyVote_UndoBlind(msg, forMessage, messageID, voteType) ==
    [msg EXCEPT !.Upvotes   = IF voteType > 0 THEN @ + 1 ELSE @ - 1,
                !.Downvotes = IF voteType > 0 THEN @ - 1 ELSE @ + 1]

\* "Remove previous vote if exists" then "Add new vote" on one message.
ApplyVote(msg, forMessage, messageID, voteType) ==
    LET prevVote == MapGet(forMessage, messageID)
        up1   == IF messageID \in DOMAIN forMessage /\ prevVote > 0
                 THEN msg.Upvotes - 1 ELSE msg.Upvotes
        down1 == IF messageID \in DOMAIN forMessage /\ prevVote < 0
                 THEN msg.Downvotes - 1 ELSE msg.Downvotes
    IN  [msg EXCEPT !.Upvotes   = IF voteType > 0 THEN up1 + 1 ELSE up1,
                    !.Downvotes = IF voteType > 0 THEN down1 ELSE down1 + 1]

\* Mutant of AlreadyVoted: a repeated direction is not noticed.
AlreadyVoted_Never(forMessage, messageID, voteType) == FALSE

\* "Check if user has already voted this way"
AlreadyVoted(forMessage, messageID, voteType) ==
    MapGet(forMessage, messageID) = voteType

\* voteMessage as one critical section (voteMutex, then chatMutex, both held
\* to the return): the log, the ledger and the error it returns.
voteMessage(s, messageID, voteType) ==
    LET username == User(s)
        votes1   == EnsureUser(userVotes, username)
        forMsg   == votes1[username]
        i        == FindMessage(chatMessages, messageID)
    IN  IF AlreadyVoted(forMsg, messageID, voteType)
        THEN [msgs |-> chatMessages, votes |-> votes1, err |-> ErrAlreadyVoted]
        ELSE IF i = 0
        THEN [msgs |-> chatMessages, votes |-> votes1, err |-> ErrNotFound]
        ELSE [msgs  |-> [chatMessages EXCEPT
                            ![i] = ApplyVote(@, forMsg, messageID, voteType)],
              votes |-> [votes1 EXCEPT
                            ![username] = MapPut(@, messageID, voteType)],
              err   |-> ErrNil]

\* The locals of a session with no call in progress; `calls` counts the
\* addMessage calls the connection has made (history).
NoLocals(calls) ==
    [id |-> "", vt |-> 0, up |-> 0, down |-> 0,
     text |-> "", system |-> FALSE, n |-> 0, ts |-> "", calls |-> calls]

\* ------------------------------------------------------------------- Init
\* The state once main() has run addMessage(nil, "Welcome ...", true) and
\* the server listens: no connection yet.
Init ==
    /\ now = 0
    /\ chatMessages =
           <<NewMessage(0, "Welcome to letsgosky.social", TRUE, TimeFormat(0))>>
    /\ origin = <<<<0, 1>>>>
    /\ userVotes = EmptyMap
    /\ onlineUsers = 0
    /\ status = [s \in Sessions |-> "new"]
    /\ isSelectMode = [s \in Sessions |-> FALSE]
    /\ selectedMessage = [s \in Sessions |-> 0]
    /\ lastMessageCount = [s \in Sessions |-> 0]
    /\ err = [s \in Sessions |-> ErrNil]
    /\ pc = [s \in Sessions |-> "idle"]
    /\ voteMutex = 0
    /\ chatMutex = 0
    /\ loc = [s \in Sessions |-> NoLocals(0)]
    /\ flipped = FALSE
    /\ lastVote = [prev |-> 0, vt |-> 0, err |-> ErrNil]
    /\ usersMutex = 0
    /\ ignored = "none"
    /\ pending = [s \in Sessions |-> 0]

\* tea.Batch(tiCmd, vpCmd, m.checkNewMessages) returned by Init and by
\* Update: one more checkNewMessages command sleeps for the session.  The
\* count is kept up to MaxPending, which stands for MaxPending or more.
Schedule(p) == IF p < MaxPending THEN p + 1 ELSE p

\* The commands in flight for session s once its handler has returned.
Rescheduled(s) == [pending EXCEPT ![s] = Schedule(@)]

\* Mutant of AfterTick: the tick's handler schedules no further tick.
AfterTick_NoReschedule(p) == p - 1

\* A checkNewMessages command has delivered its messagesUpdatedMsg and the
\* handler of that message has returned the next one.
AfterTick(p) == Schedule(p - 1)

\* A session whose Update handler can take the next event.
Ready(s) == status[s] = "on" /\ pc[s] = "idle"

\* The history entry of the addMessage call session s makes next.
NextCall(s) == <<s, loc[s].calls + 1>>

\* ------------------------------------------ session-level actions (coarse)
\* Each lock-protected call (addMessage, voteMessage, getMessages) is one
\* step; the handlers' reads of the live log outside any lock are steps of
\* their own wherever a handler reads it more than once.

\* The wall clock advances by a second.
Tick ==
    /\ now < MaxClock
    /\ now' = now + 1
    /\ UNCHANGED <<usersMutex, ignored, chatMessages, userVotes, onlineUsers,
                   status, isSelectMode, selectedMessage, lastMessageCount,
                   err, pc, voteMutex, chatMutex, loc, origin, flipped,
                   lastVote, pending>>

JoinText(s) ==
    "Silly goober " \o User(s) \o " has made the mistake of joining the cult"

\* incrementUsers
incrementUsers(n) == n + 1

\* decrementUsers
decrementUsers(n) == IF n > 0 THEN n - 1 ELSE n

\* teaHandler: a client connects.  The join notice is appended, the presence
\* counter incremented and a fresh model (zero values) created.
Connect(s) ==
    /\ status[s] = "new"
    /\ Len(chatMessages) < MaxLog
    /\ chatMessages' = addMessage(0, JoinText(s), TRUE)
    /\ origin' = Append(origin, NextCall(s))
    /\ loc' = [loc EXCEPT ![s].calls = @ + 1]
    /\ onlineUsers' = incrementUsers(onlineUsers)
    /\ status' = [status EXCEPT ![s] = "on"]
    /\ pending' = Rescheduled(s)
    /\ UNCHANGED <<usersMutex, ignored, userVotes, now, isSelectMode,
                   selectedMessage, lastMessageCount, err, pc, voteMutex,
                   chatMutex, flipped, lastVote>>

\* Update, tea.KeyCtrlC / tea.KeyEsc: decrementUsers and tea.Quit.
Quit(s) ==
    /\ Ready(s)
    /\ onlineUsers' = decrementUsers(onlineUsers)
    /\ status' = [status EXCEPT ![s] = "quit"]
    /\ pending' = [pending EXCEPT ![s] = 0]
    /\ UNCHANGED <<usersMutex, ignored, chatMessages, userVotes, now,
                   isSelectMode, selectedMessage, lastMessageCount, err, pc,
                   voteMutex, chatMutex, loc, origin, flipped, lastVote>>

\* Mutant of TabAnchor: off by one, the length instead of the last index.
TabAnchor_OffByOne(msgs) == Len(msgs)

\* What KeyTab stores in selectedMessage on entering selection mode.
TabAnchor(msgs) == Len(msgs) - 1

\* Update, tea.KeyTab: toggle the mode; on entering selection mode the
\* selection is initialised from the live log.
KeyTab(s) ==
    /\ Ready(s)
    /\ isSelectMode' = [isSelectMode EXCEPT ![s] = ~@]
    /\ selectedMessage' =
           IF ~isSelectMode[s]
           THEN [selectedMessage EXCEPT ![s] = TabAnchor(chatMessages)]
           ELSE selectedMessage
    /\ pending' = Rescheduled(s)
    /\ UNCHANGED <<usersMutex, ignored, chatMessages, userVotes, onlineUsers,
                   now, status, lastMessageCount, err, pc, voteMutex,
                   chatMutex, loc, origin, flipped, lastVote>>

\* The guard of the KeyEnter branch.
SubmitAccepted(s, text) == ~isSelectMode[s] /\ text # ""

\* Update, tea.KeyEnter with the text area holding `text`: in input mode a
\* non-empty value is appended as it is.  lastMessageCount is not touched.
KeyEnter(s, text) ==
    /\ Ready(s)
    /\ IF SubmitAccepted(s, text)
       THEN /\ Len(chatMessages) < MaxLog
            /\ chatMessages' = addMessage(s, text, FALSE)
            /\ origin' = Append(origin, NextCall(s))
            /\ loc' = [loc EXCEPT ![s].calls = @ + 1]
       ELSE UNCHANGED <<chatMessages, origin, loc>>
    /\ ignored' = IF isSelectMode[s] THEN "enter" ELSE ignored
    /\ pending' = Rescheduled(s)
    /\ UNCHANGED <<usersMutex, userVotes, onlineUsers, now, status,
                   isSelectMode, selectedMessage, lastMessageCount, err, pc,
                   voteMutex, chatMutex, flipped, lastVote>>

\* KeyUp loop body, first statement: if m.selectedMessage > 0 { m.selectedMessage-- }
UpMove(sel) == IF sel > 0 THEN sel - 1 ELSE sel

\* KeyUp loop body, exit test.
UpBreak(msgs, sel) == sel = 0 \/ ~msgs[sel + 1].System

\* KeyDown loop body, first statement.
DownMove(msgs, sel) == IF sel < Len(msgs) - 1 THEN sel + 1 ELSE sel

\* Mutant of DownBreak: the loop does not stop at the last index.
DownBreak_NoBoundary(msgs, sel) == ~msgs[sel + 1].System

\* KeyDown loop body, exit test.
DownBreak(msgs, sel) == sel = Len(msgs) - 1 \/ ~msgs[sel + 1].System

\* Update, tea.KeyUp: in selection mode the handler enters its loop; in
\* input mode the key only reaches the text area and the viewport.
KeyUp(s) ==
    /\ Ready(s)
    /\ pc' = [pc EXCEPT ![s] = IF isSelectMode[s] THEN "up" ELSE @]
    /\ ignored' = IF isSelectMode[s] THEN ignored ELSE "up"
    /\ pending' = IF isSelectMode[s] THEN pending ELSE Rescheduled(s)
    /\ UNCHANGED <<usersMutex, chatMessages, userVotes, onlineUsers, now,
                   status, isSelectMode, selectedMessage, lastMessageCount,
                   err, voteMutex, chatMutex, loc, origin, flipped, lastVote>>

\* One iteration of the KeyUp loop (the live log is read without a lock).
UpStep(s) ==
    /\ status[s] = "on"
    /\ pc[s] = "up"
    /\ selectedMessage' = [selectedMessage EXCEPT ![s] = UpMove(@)]
    /\ pc' = [pc EXCEPT ![s] =
                 IF UpBreak(chatMessages, selectedMessage'[s])
                 THEN "idle" ELSE "up"]
    /\ pending' = IF pc'[s] = "idle" THEN Rescheduled(s) ELSE pending
    /\ UNCHANGED <<usersMutex, ignored, chatMessages, userVotes, onlineUsers,
                   now, status, isSelectMode, lastMessageCount, err,
                   voteMutex, chatMutex, loc, origin, flipped, lastVote>>

\* Update, tea.KeyDown.
KeyDown(s) ==
    /\ Ready(s)
    /\ pc' = [pc EXCEPT ![s] = IF isSelectMode[s] THEN "down" ELSE @]
    /\ ignored' = IF isSelectMode[s] THEN ignored ELSE "down"
    /\ pending' = IF isSelectMode[s] THEN pending ELSE Rescheduled(s)
    /\ UNCHANGED <<usersMutex, chatMessages, userVotes, onlineUsers, now,
                   status, isSelectMode, selectedMessage, lastMessageCount,
                   err, voteMutex, chatMutex, loc, origin, flipped, lastVote>>

\* KeyDown loop, the conditional increment.  len(chatMessages) is read from
\* the live log, so another session's append may fall between this read and
\* the exit test's.
DownStep(s) ==
    /\ status[s] = "on"
    /\ pc[s] = "down"
    /\ selectedMessage' =
           [selectedMessage EXCEPT ![s] = DownMove(chatMessages, @)]
    /\ pc' = [pc EXCEPT ![s] = "downTest"]
    /\ UNCHANGED <<usersMutex, ignored, chatMessages, userVotes, onlineUsers,
                   now, status, isSelectMode, lastMessageCount, err,
                   voteMutex, chatMutex, loc, origin, flipped, lastVote,
                   pending>>

\* KeyDown loop, the exit test.
DownTest(s) ==
    /\ status[s] = "on"
    /\ pc[s] = "downTest"
    /\ pc' = [pc EXCEPT ![s] =
                 IF DownBreak(chatMessages, selectedMessage[s])
                 THEN "idle" ELSE "down"]
    /\ pending' = IF pc'[s] = "idle" THEN Rescheduled(s) ELSE pending
    /\ UNCHANGED <<usersMutex, ignored, chatMessages, userVotes, onlineUsers,
                   now, status, isSelectMode, selectedMessage,
                   lastMessageCount, err, voteMutex, chatMutex, loc, origin,
                   flipped, lastVote>>

\* Mutant of VoteGuard: the vote keys are not tested against the mode.
VoteGuard_NoModeTest(s) == Len(chatMessages) > selectedMessage[s]

\* The guard of the "u"/"d" branches.
VoteGuard(s) == isSelectMode[s] /\ Len(chatMessages) > selectedMessage[s]

\* The id the "u"/"d" branches hand to voteMessage.
SelectedID(s) == At(selectedMessage[s]).UniqueID

\* The direction the user has on record for an id (0: none).
Recorded(username, messageID) ==
    IF username \in DOMAIN userVotes
    THEN MapGet(userVotes[username], messageID) ELSE 0

\* Update, tea.KeyRunes "u"/"U" (voteType 1) and "d"/"D" (voteType -1): in
\* selection mode the selected entry's UniqueID is voted on; an error is kept
\* in m.err, which a later success does not clear.
KeyVote(s, voteType) ==
    /\ Ready(s)
    /\ IF VoteGuard(s)
       THEN LET r == voteMessage(s, SelectedID(s), voteType)
            IN  /\ chatMessages' = r.msgs
                /\ userVotes' = r.votes
                /\ err' = [err EXCEPT ![s] = IF r.err # ErrNil THEN r.err ELSE @]
                /\ flipped' = (flipped \/
                                 (r.err = ErrNil /\
                                  Recorded(User(s), SelectedID(s)) = -voteType))
                /\ lastVote' = [prev |-> Recorded(User(s), SelectedID(s)),
                                vt   |-> voteType,
                                err  |-> r.err]
       ELSE UNCHANGED <<chatMessages, userVotes, err, flipped, lastVote>>
    /\ ignored' = IF isSelectMode[s] THEN ignored
                  ELSE IF voteType > 0 THEN "u" ELSE "d"
    /\ pending' = Rescheduled(s)
    /\ UNCHANGED <<usersMutex, onlineUsers, now, status, isSelectMode,
                   selectedMessage, lastMessageCount, pc, voteMutex,
                   chatMutex, loc, origin>>

\* getMessages: a copy of the log taken under the read lock.
getMessages == chatMessages

\* Update, messagesUpdatedMsg: the refresh tick.
RefreshTick(s) ==
    /\ Ready(s)
    /\ pending[s] >= 1
    /\ LET updatedMessages == getMessages
       IN  IF Len(updatedMessages) # lastMessageCount[s]
           THEN /\ lastMessageCount' =
                       [lastMessageCount EXCEPT ![s] = Len(updatedMessages)]
                /\ selectedMessage' =
                       [selectedMessage EXCEPT ![s] = Len(updatedMessages) - 1]
           ELSE UNCHANGED <<lastMessageCount, selectedMessage>>
    /\ pending' = [pending EXCEPT ![s] = AfterTick(@)]
    /\ UNCHANGED <<usersMutex, ignored, chatMessages, userVotes, onlineUsers,
                   now, status, isSelectMode, err, pc, voteMutex, chatMutex,
                   loc, origin, flipped, lastVote>>

\* The session state machine over the shared log, votes left out: connect,
\* quit, mode toggle, submit, navigation and refresh tick of every session,
\* interleaved.
Next ==
    \/ Tick
    \/ \E s \in Sessions : Connect(s)
    \/ \E s \in Sessions : Quit(s)
    \/ \E s \in Sessions : KeyTab(s)
    \/ \E s \in Sessions : \E text \in Texts : KeyEnter(s, text)
    \/ \E s \in Sessions : KeyUp(s)
    \/ \E s \in Sessions : UpStep(s)
    \/ \E s \in Sessions : KeyDown(s)
    \/ \E s \in Sessions : DownStep(s)
    \/ \E s \in Sessions : DownTest(s)
    \/ \E s \in Sessions : RefreshTick(s)

Spec == Init /\ [][Next]_vars

\* The vote ledger driven from the sessions: connect, submit, mode toggle
\* and the vote keys, within one second of wall-clock time.  A session's
\* selection is where Tab anchored it; the log may have grown since.
NextLedger ==
    \/ \E s \in Sessions : Connect(s)
    \/ \E s \in Sessions : KeyTab(s)
    \/ \E s \in Sessions : KeyEnter(s, "hi")
    \/ \E s \in Sessions : \E voteType \in {1, -1} : KeyVote(s, voteType)

SpecLedger == Init /\ [][NextLedger]_vars

\* The connection ends without a Ctrl-C or Esc key reaching Update (the
\* client closes it, the network drops): the session's program stops and no
\* code of this program runs for it.
Drop(s) ==
    /\ Ready(s)
    /\ status' = [status EXCEPT ![s] = "quit"]
    /\ pending' = [pending EXCEPT ![s] = 0]
    /\ UNCHANGED <<usersMutex, ignored, chatMessages, userVotes, onlineUsers,
                   now, isSelectMode, selectedMessage, lastMessageCount, err,
                   pc, voteMutex, chatMutex, loc, origin, flipped, lastVote>>

\* Connections coming and going, by key or by a dropped connection, among
\* sessions that chat.
NextPresence ==
    \/ \E s \in Sessions : Connect(s)
    \/ \E s \in Sessions : Quit(s)
    \/ \E s \in Sessions : Drop(s)
    \/ \E s \in Sessions : KeyTab(s)
    \/ \E s \in Sessions : KeyEnter(s, "hi")
    \/ \E s \in Sessions : RefreshTick(s)

SpecPresence == Init /\ [][NextPresence]_vars

\* ------------------------------------------------ lock-level actions (fine)
\* Mutant of MutexFree: Lock returns at once, whoever holds the mutex.
MutexFree_Broken(m) == TRUE

\* sync.Mutex.Lock / RWMutex.Lock returns only when nobody holds the mutex.
MutexFree(m) == m = 0

\* voteMessage, called from the "u"/"d" branch: the handler has read the
\* selected entry's UniqueID and now waits for voteMutex.
VoteCall(s, voteType) ==
    /\ Ready(s)
    /\ VoteGuard(s)
    /\ loc' = [loc EXCEPT ![s].id = SelectedID(s), ![s].vt = voteType]
    /\ pc' = [pc EXCEPT ![s] = "vLock"]
    /\ UNCHANGED <<usersMutex, ignored, chatMessages, userVotes, onlineUsers,
                   now, status, isSelectMode, selectedMessage,
                   lastMessageCount, err, voteMutex, chatMutex, origin,
                   flipped, lastVote, pending>>

\* voteMutex.Lock()
VoteLock(s) ==
    /\ pc[s] = "vLock"
    /\ MutexFree(voteMutex)
    /\ voteMutex' = s
    /\ pc' = [pc EXCEPT ![s] = "vCheck"]
    /\ UNCHANGED <<usersMutex, ignored, chatMessages, userVotes, onlineUsers,
                   now, status, isSelectMode, selectedMessage,
                   lastMessageCount, err, chatMutex, loc, origin, flipped,
                   lastVote, pending>>

\* The user's map is created when missing; a repeated direction returns the
\* error (the deferred Unlock releases voteMutex).
VoteCheck(s) ==
    /\ pc[s] = "vCheck"
    /\ userVotes' = EnsureUser(userVotes, User(s))
    /\ IF AlreadyVoted(userVotes'[User(s)], loc[s].id, loc[s].vt)
       THEN /\ err' = [err EXCEPT ![s] = ErrAlreadyVoted]
            /\ voteMutex' = 0
            /\ pc' = [pc EXCEPT ![s] = "idle"]
            /\ loc' = [loc EXCEPT ![s] = NoLocals(@.calls)]
            /\ lastVote' = [prev |-> loc[s].vt, vt |-> loc[s].vt,
                            err |-> ErrAlreadyVoted]
       ELSE /\ pc' = [pc EXCEPT ![s] = "vChat"]
            /\ UNCHANGED <<err, voteMutex, loc, lastVote>>
    /\ pending' = IF pc'[s] = "idle" THEN Rescheduled(s) ELSE pending
    /\ UNCHANGED <<usersMutex, ignored, chatMessages, onlineUsers, now,
                   status, isSelectMode, selectedMessage, lastMessageCount,
                   chatMutex, origin, flipped>>

\* chatMutex.Lock(), voteMutex still held.
VoteChatLock(s) ==
    /\ pc[s] = "vChat"
    /\ MutexFree(chatMutex)
    /\ chatMutex' = s
    /\ pc' = [pc EXCEPT ![s] = "vLoad"]
    /\ UNCHANGED <<usersMutex, ignored, chatMessages, userVotes, onlineUsers,
                   now, status, isSelectMode, selectedMessage,
                   lastMessageCount, err, voteMutex, loc, origin, flipped,
                   lastVote, pending>>

\* The range loop finds the entry and the counters are read (the load half
\* of Upvotes-- / Upvotes++ / Downvotes-- / Downvotes++); without a match
\* "message not found" is returned and both mutexes are released.
VoteLoad(s) ==
    /\ pc[s] = "vLoad"
    /\ LET i == FindMessage(chatMessages, loc[s].id)
       IN  IF i = 0
           THEN /\ err' = [err EXCEPT ![s] = ErrNotFound]
                /\ voteMutex' = 0
                /\ chatMutex' = 0
                /\ pc' = [pc EXCEPT ![s] = "idle"]
                /\ loc' = [loc EXCEPT ![s] = NoLocals(@.calls)]
                /\ lastVote' = [prev |-> Recorded(User(s), loc[s].id),
                                vt |-> loc[s].vt, err |-> ErrNotFound]
           ELSE /\ loc' = [loc EXCEPT ![s].up = chatMessages[i].Upvotes,
                                      ![s].down = chatMessages[i].Downvotes]
                /\ pc' = [pc EXCEPT ![s] = "vStore"]
                /\ UNCHANGED <<err, voteMutex, chatMutex, lastVote>>
    /\ pending' = IF pc'[s] = "idle" THEN Rescheduled(s) ELSE pending
    /\ UNCHANGED <<usersMutex, ignored, chatMessages, userVotes, onlineUsers,
                   now, status, isSelectMode, selectedMessage,
                   lastMessageCount, origin, flipped>>

\* The counters are written back (the store half), the user's direction is
\* recorded, and the deferred Unlocks release chatMutex and voteMutex.
VoteStore(s) ==
    /\ pc[s] = "vStore"
    /\ LET i      == FindMessage(chatMessages, loc[s].id)
           forMsg == userVotes[User(s)]
           read   == [chatMessages[i] EXCEPT !.Upvotes = loc[s].up,
                                             !.Downvotes = loc[s].down]
       IN  /\ chatMessages' =
                  [chatMessages EXCEPT
                      ![i] = ApplyVote(read, forMsg, loc[s].id, loc[s].vt)]
           /\ userVotes' =
                  [userVotes EXCEPT
                      ![User(s)] = MapPut(@, loc[s].id, loc[s].vt)]
           /\ flipped' = (flipped \/ MapGet(forMsg, loc[s].id) = -loc[s].vt)
           /\ lastVote' = [prev |-> MapGet(forMsg, loc[s].id),
                           vt |-> loc[s].vt, err |-> ErrNil]
    /\ voteMutex' = 0
    /\ chatMutex' = 0
    /\ pc' = [pc EXCEPT ![s] = "idle"]
    /\ loc' = [loc EXCEPT ![s] = NoLocals(@.calls)]
    /\ pending' = Rescheduled(s)
    /\ UNCHANGED <<usersMutex, ignored, onlineUsers, now, status,
                   isSelectMode, selectedMessage, lastMessageCount, err,
                   origin>>

RECURSIVE JoinedLog(_)
\* The log once main() has run and connections 1 .. k have joined.
JoinedLog(k) ==
    IF k = 0
    THEN <<NewMessage(0, "Welcome to letsgosky.social", TRUE, TimeFormat(0))>>
    ELSE Append(JoinedLog(k - 1),
                NewMessage(0, JoinText(k), TRUE, TimeFormat(0)))

RECURSIVE JoinedOrigin(_)
JoinedOrigin(k) ==
    IF k = 0 THEN <<<<0, 1>>>> ELSE Append(JoinedOrigin(k - 1), <<k, 1>>)

\* Every connection has joined, connection 1 has submitted "hi", and every
\* session has then pressed Tab: all of them have that message selected.
InitVote ==
    /\ now = 0
    /\ chatMessages = Append(JoinedLog(NumSessions),
                             NewMessage(1, "hi", FALSE, TimeFormat(0)))
    /\ origin = Append(JoinedOrigin(NumSessions), <<1, 2>>)
    /\ userVotes = EmptyMap
    /\ onlineUsers = NumSessions
    /\ status = [s \in Sessions |-> "on"]
    /\ isSelectMode = [s \in Sessions |-> TRUE]
    /\ selectedMessage = [s \in Sessions |-> NumSessions + 1]
    /\ lastMessageCount = [s \in Sessions |-> 0]
    /\ err = [s \in Sessions |-> ErrNil]
    /\ pc = [s \in Sessions |-> "idle"]
    /\ voteMutex = 0
    /\ chatMutex = 0
    /\ loc = [s \in Sessions |-> NoLocals(IF s = 1 THEN 2 ELSE 1)]
    /\ flipped = FALSE
    /\ lastVote = [prev |-> 0, vt |-> 0, err |-> ErrNil]
    /\ usersMutex = 0
    /\ ignored = "none"
    /\ pending = [s \in Sessions |-> Schedule(Schedule(0))]

\* Concurrent voteMessage calls of all sessions, statement by statement.
NextVote ==
    \/ \E s \in Sessions : \E voteType \in {1, -1} : VoteCall(s, voteType)
    \/ \E s \in Sessions : VoteLock(s)
    \/ \E s \in Sessions : VoteCheck(s)
    \/ \E s \in Sessions : VoteChatLock(s)
    \/ \E s \in Sessions : VoteLoad(s)
    \/ \E s \in Sessions : VoteStore(s)

SpecVote == InitVote /\ [][NextVote]_vars

\* chatMessages = append(chatMessages, msg), with the slice header (its
\* length n) read at the load: the result holds the first n entries and msg.
StoreAt(msgs, n, msg) == AppendMessage(SubSeq(msgs, 1, n), msg)

\* Chat messages in the log or on their way into it.
Submitted ==
    Cardinality({i \in 1 .. Len(chatMessages) : ~chatMessages[i].System})
    + Cardinality({t \in Sessions : pc[t] \in {"aLock", "aLoad", "aStore"}
                                    /\ ~loc[t].system})

\* teaHandler's first statement: addMessage(nil, "Silly goober ...", true).
ConnectCall(s) ==
    /\ status[s] = "new"
    /\ pc[s] = "idle"
    /\ loc' = [loc EXCEPT ![s].text = JoinText(s), ![s].system = TRUE]
    /\ pc' = [pc EXCEPT ![s] = "aLock"]
    /\ UNCHANGED <<usersMutex, ignored, chatMessages, userVotes, onlineUsers,
                   now, status, isSelectMode, selectedMessage,
                   lastMessageCount, err, voteMutex, chatMutex, origin,
                   flipped, lastVote, pending>>

\* Update, tea.KeyEnter: addMessage(m.session, m.textarea.Value(), false).
EnterCall(s, text) ==
    /\ Ready(s)
    /\ SubmitAccepted(s, text)
    /\ Submitted < MaxAppends
    /\ loc' = [loc EXCEPT ![s].text = text, ![s].system = FALSE]
    /\ pc' = [pc EXCEPT ![s] = "aLock"]
    /\ UNCHANGED <<usersMutex, ignored, chatMessages, userVotes, onlineUsers,
                   now, status, isSelectMode, selectedMessage,
                   lastMessageCount, err, voteMutex, chatMutex, origin,
                   flipped, lastVote, pending>>

\* addMessage: chatMutex.Lock()
AppendLock(s) ==
    /\ pc[s] = "aLock"
    /\ MutexFree(chatMutex)
    /\ chatMutex' = s
    /\ pc' = [pc EXCEPT ![s] = "aLoad"]
    /\ UNCHANGED <<usersMutex, ignored, chatMessages, userVotes, onlineUsers,
                   now, status, isSelectMode, selectedMessage,
                   lastMessageCount, err, voteMutex, loc, origin, flipped,
                   lastVote, pending>>

\* addMessage: the timestamp is taken and the slice header read.
AppendLoad(s) ==
    /\ pc[s] = "aLoad"
    /\ loc' = [loc EXCEPT ![s].ts = TimeFormat(now),
                          ![s].n = Len(chatMessages)]
    /\ pc' = [pc EXCEPT ![s] = "aStore"]
    /\ UNCHANGED <<usersMutex, ignored, chatMessages, userVotes, onlineUsers,
                   now, status, isSelectMode, selectedMessage,
                   lastMessageCount, err, voteMutex, chatMutex, origin,
                   flipped, lastVote, pending>>

\* addMessage: the appended slice is stored and chatMutex released.  In
\* teaHandler incrementUsers follows and the session's model starts.
AppendStore(s) ==
    /\ pc[s] = "aStore"
    /\ chatMessages' =
           StoreAt(chatMessages, loc[s].n,
                   NewMessage(IF loc[s].system THEN 0 ELSE s, loc[s].text,
                              loc[s].system, loc[s].ts))
    /\ origin' = Append(SubSeq(origin, 1, loc[s].n), NextCall(s))
    /\ chatMutex' = 0
    /\ pc' = [pc EXCEPT ![s] = "idle"]
    /\ loc' = [loc EXCEPT ![s] = NoLocals(@.calls + 1)]
    /\ IF status[s] = "new"
       THEN /\ onlineUsers' = incrementUsers(onlineUsers)
            /\ status' = [status EXCEPT ![s] = "on"]
       ELSE UNCHANGED <<onlineUsers, status>>
    /\ pending' = Rescheduled(s)
    /\ UNCHANGED <<usersMutex, ignored, userVotes, now, isSelectMode,
                   selectedMessage, lastMessageCount, err, voteMutex, flipped,
                   lastVote>>

\* Concurrent addMessage calls (join notices and chat messages) of all
\* connections, statement by statement, while the clock runs.
NextAppend ==
    \/ Tick
    \/ \E s \in Sessions : ConnectCall(s)
    \/ \E s \in Sessions : EnterCall(s, "hi")
    \/ \E s \in Sessions : AppendLock(s)
    \/ \E s \in Sessions : AppendLoad(s)
    \/ \E s \in Sessions : AppendStore(s)

SpecAppend == Init /\ [][NextAppend]_vars

\* ----------------------------------------- all three locks, call by call
\* chatMutex is a sync.RWMutex: a writer holds it as its session number,
\* readers hold it as minus their number (-2: two getMessages calls inside).

\* Sessions whose Lock() call on chatMutex has not returned yet.
WritersWaiting == {t \in Sessions : pc[t] \in {"aLock", "vChat"}}

\* Sessions inside getMessages, holding the read lock.
Readers == {t \in Sessions : pc[t] = "tCopy"}

\* RWMutex.RLock returns when no writer holds the mutex and none waits for
\* it (a pending Lock call keeps new readers out).
RLockFree(m) == m <= 0 /\ WritersWaiting = {}

\* Mutant of RUnlock: the deferred RUnlock is missing.
RUnlock_Missing(m) == m

\* RWMutex.RUnlock: one reader fewer.
RUnlock(m) == m + 1

\* The refresh tick arrives: Update calls getMessages.
TickCall(s) ==
    /\ Ready(s)
    /\ pending[s] >= 1
    /\ pc' = [pc EXCEPT ![s] = "tRLock"]
    /\ UNCHANGED <<usersMutex, ignored, chatMessages, userVotes, onlineUsers,
                   now, status, isSelectMode, selectedMessage,
                   lastMessageCount, err, voteMutex, chatMutex, loc, origin,
                   flipped, lastVote, pending>>

\* getMessages: chatMutex.RLock()
TickRLock(s) ==
    /\ pc[s] = "tRLock"
    /\ RLockFree(chatMutex)
    /\ chatMutex' = chatMutex - 1
    /\ pc' = [pc EXCEPT ![s] = "tCopy"]
    /\ UNCHANGED <<usersMutex, ignored, chatMessages, userVotes, onlineUsers,
                   now, status, isSelectMode, selectedMessage,
                   lastMessageCount, err, voteMutex, loc, origin, flipped,
                   lastVote, pending>>

\* getMessages copies the log and releases the read lock; the
\* messagesUpdatedMsg branch then compares the copy's length.
TickCopy(s) ==
    /\ pc[s] = "tCopy"
    /\ chatMutex' = RUnlock(chatMutex)
    /\ LET updatedMessages == chatMessages
       IN  IF Len(updatedMessages) # lastMessageCount[s]
           THEN /\ lastMessageCount' =
                       [lastMessageCount EXCEPT ![s] = Len(updatedMessages)]
                /\ selectedMessage' =
                       [selectedMessage EXCEPT ![s] = Len(updatedMessages) - 1]
           ELSE UNCHANGED <<lastMessageCount, selectedMessage>>
    /\ pc' = [pc EXCEPT ![s] = "idle"]
    /\ pending' = [pending EXCEPT ![s] = AfterTick(@)]
    /\ UNCHANGED <<usersMutex, ignored, chatMessages, userVotes, onlineUsers,
                   now, status, isSelectMode, err, voteMutex, loc, origin,
                   flipped, lastVote>>

\* Update, tea.KeyCtrlC / tea.KeyEsc: decrementUsers is called.
QuitCall(s) ==
    /\ Ready(s)
    /\ pc' = [pc EXCEPT ![s] = "uLock"]
    /\ UNCHANGED <<usersMutex, ignored, chatMessages, userVotes, onlineUsers,
                   now, status, isSelectMode, selectedMessage,
                   lastMessageCount, err, voteMutex, chatMutex, loc, origin,
                   flipped, lastVote, pending>>

\* decrementUsers: usersMutex.Lock()
UsersLock(s) ==
    /\ pc[s] = "uLock"
    /\ MutexFree(usersMutex)
    /\ usersMutex' = s
    /\ pc' = [pc EXCEPT ![s] = "uStep"]
    /\ UNCHANGED <<ignored, chatMessages, userVotes, onlineUsers, now, status,
                   isSelectMode, selectedMessage, lastMessageCount, err,
                   voteMutex, chatMutex, loc, origin, flipped, lastVote,
                   pending>>

\* decrementUsers updates the counter and releases usersMutex; Update
\* returns tea.Quit and the session's program ends.
UsersStep(s) ==
    /\ pc[s] = "uStep"
    /\ onlineUsers' = decrementUsers(onlineUsers)
    /\ status' = [status EXCEPT ![s] = "quit"]
    /\ usersMutex' = 0
    /\ pc' = [pc EXCEPT ![s] = "idle"]
    /\ pending' = [pending EXCEPT ![s] = 0]
    /\ UNCHANGED <<ignored, chatMessages, userVotes, now, isSelectMode,
                   selectedMessage, lastMessageCount, err, voteMutex,
                   chatMutex, loc, origin, flipped, lastVote>>

\* A Lock or RLock call of session s returns.
Acquire(s) ==
    \/ VoteLock(s)
    \/ VoteChatLock(s)
    \/ AppendLock(s)
    \/ TickRLock(s)
    \/ UsersLock(s)

\* Every connection has joined and connection 1 has submitted "hi"; each
\* session has then either pressed Tab, and has that message selected, or
\* stayed in input mode.
InitLocks ==
    /\ now = 0
    /\ chatMessages = Append(JoinedLog(NumSessions),
                             NewMessage(1, "hi", FALSE, TimeFormat(0)))
    /\ origin = Append(JoinedOrigin(NumSessions), <<1, 2>>)
    /\ userVotes = EmptyMap
    /\ onlineUsers = NumSessions
    /\ status = [s \in Sessions |-> "on"]
    /\ isSelectMode \in [Sessions -> BOOLEAN]
    /\ selectedMessage =
           [s \in Sessions |-> IF isSelectMode[s] THEN NumSessions + 1 ELSE 0]
    /\ lastMessageCount = [s \in Sessions |-> 0]
    /\ err = [s \in Sessions |-> ErrNil]
    /\ pc = [s \in Sessions |-> "idle"]
    /\ voteMutex = 0
    /\ chatMutex = 0
    /\ loc = [s \in Sessions |-> NoLocals(IF s = 1 THEN 2 ELSE 1)]
    /\ flipped = FALSE
    /\ lastVote = [prev |-> 0, vt |-> 0, err |-> ErrNil]
    /\ usersMutex = 0
    /\ ignored = "none"
    /\ pending = [s \in Sessions |->
                      IF isSelectMode[s] \/ s = 1
                      THEN Schedule(Schedule(0)) ELSE Schedule(0)]

\* Appends, votes, snapshots and presence updates of connected sessions,
\* statement by statement.
NextLocks ==
    \/ \E s \in Sessions : EnterCall(s, "hi")
    \/ \E s \in Sessions : \E voteType \in {1, -1} : VoteCall(s, voteType)
    \/ \E s \in Sessions : TickCall(s)
    \/ \E s \in Sessions : QuitCall(s)
    \/ \E s \in Sessions : Acquire(s)
    \/ \E s \in Sessions : VoteCheck(s)
    \/ \E s \in Sessions : VoteLoad(s)
    \/ \E s \in Sessions : VoteStore(s)
    \/ \E s \in Sessions : AppendLoad(s)
    \/ \E s \in Sessions : AppendStore(s)
    \/ \E s \in Sessions : TickCopy(s)
    \/ \E s \in Sessions : UsersStep(s)

SpecLocks == InitLocks /\ [][NextLocks]_vars

\* Every key Update dispatches on, pressed in either mode by sessions that
\* have all joined: submit, navigation and the vote keys.
NextGate ==
    \/ \E s \in Sessions : KeyEnter(s, "hi")
    \/ \E s \in Sessions : KeyUp(s)
    \/ \E s \in Sessions : UpStep(s)
    \/ \E s \in Sessions : KeyDown(s)
    \/ \E s \in Sessions : DownStep(s)
    \/ \E s \in Sessions : DownTest(s)
    \/ \E s \in Sessions : \E voteType \in {1, -1} : KeyVote(s, voteType)

SpecGate == InitLocks /\ [][NextGate]_vars

\* Navigation while the log grows: sessions join, toggle the mode, submit and
\* press Up and Down; the goroutine running a handler's loop keeps running.
NextNav ==
    \/ \E s \in Sessions : Connect(s)
    \/ \E s \in Sessions : KeyTab(s)
    \/ \E s \in Sessions : KeyEnter(s, "hi")
    \/ \E s \in Sessions : KeyUp(s)
    \/ \E s \in Sessions : UpStep(s)
    \/ \E s \in Sessions : KeyDown(s)
    \/ \E s \in Sessions : DownStep(s)
    \/ \E s \in Sessions : DownTest(s)

\* A loop that can take its next iteration takes it.
FairNav ==
    \A s \in Sessions :
        /\ WF_vars(UpStep(s))
        /\ WF_vars(DownStep(s))
        /\ WF_vars(DownTest(s))

SpecNav == Init /\ [][NextNav]_vars /\ FairNav

\* Update, tea.WindowSizeMsg: the sizes of the widgets are set (not part of
\* the state kept here) and Update returns its usual batch.
Resize(s) ==
    /\ Ready(s)
    /\ pending' = Rescheduled(s)
    /\ UNCHANGED <<usersMutex, ignored, chatMessages, userVotes, onlineUsers,
                   now, status, isSelectMode, selectedMessage,
                   lastMessageCount, err, pc, voteMutex, chatMutex, loc,
                   origin, flipped, lastVote>>

\* The refresh scheduler among sessions that join, leave, toggle the mode,
\* submit and are resized.
NextRefresh ==
    \/ \E s \in Sessions : Connect(s)
    \/ \E s \in Sessions : Quit(s)
    \/ \E s \in Sessions : KeyTab(s)
    \/ \E s \in Sessions : KeyEnter(s, "hi")
    \/ \E s \in Sessions : Resize(s)
    \/ \E s \in Sessions : RefreshTick(s)

\* A checkNewMessages command in flight sleeps for refreshInterval and then
\* delivers its messagesUpdatedMsg, which Update handles.
FairRefresh == \A s \in Sessions : WF_vars(RefreshTick(s))

SpecRefresh == Init /\ [][NextRefresh]_vars /\ FairRefresh

\* ------------------------------------------------------------------ claims

\* C1: a vote whose direction equals the direction the voter has on record
\* for the message returns the duplicate-vote error and leaves the log (so
\* every counter) and the ledger (so the recorded direction) unchanged.
C1_DuplicateVoteRejected ==
    [][\A s \in Sessions : \A voteType \in {1, -1} :
          (/\ KeyVote(s, voteType)
           /\ VoteGuard(s)
           /\ Recorded(User(s), SelectedID(s)) = voteType)
          => /\ lastVote'.err = ErrAlreadyVoted
             /\ err'[s] = ErrAlreadyVoted
             /\ chatMessages' = chatMessages
             /\ userVotes' = userVotes]_vars

\* C1 witness: a session has been refused a repeated vote on the entry it
\* has selected, on which its user's direction is on record.
C1_Witness ==
    \E s \in Sessions :
        /\ Ready(s)
        /\ VoteGuard(s)
        /\ err[s] = ErrAlreadyVoted
        /\ lastVote.err = ErrAlreadyVoted
        /\ lastVote.prev = lastVote.vt
        /\ Recorded(User(s), SelectedID(s)) = lastVote.vt
        /\ ~At(selectedMessage[s]).System

\* C2: a vote opposite to the direction on record takes exactly one from the
\* old direction's counter and adds exactly one to the new direction's, on
\* the entry voteMessage finds for the id, and records the new direction;
\* no other entry changes.  It holds for every flip of every run.
C2_FlipMovesOneVote ==
    [][\A s \in Sessions : \A voteType \in {1, -1} :
          (/\ KeyVote(s, voteType)
           /\ VoteGuard(s)
           /\ Recorded(User(s), SelectedID(s)) = -voteType)
          => LET id == SelectedID(s)
                 i  == FindMessage(chatMessages, id)
             IN  /\ i # 0
                 /\ Len(chatMessages') = Len(chatMessages)
                 /\ chatMessages'[i].Upvotes = chatMessages[i].Upvotes + voteType
                 /\ chatMessages'[i].Downvotes =
                        chatMessages[i].Downvotes - voteType
                 /\ \A j \in 1 .. Len(chatMessages) :
                        j # i => chatMessages'[j] = chatMessages[j]
                 /\ userVotes'[User(s)][id] = voteType
                 /\ \A u \in DOMAIN userVotes : \A x \in DOMAIN userVotes[u] :
                        (u # User(s) \/ x # id)
                        => userVotes'[u][x] = userVotes[u][x]]_vars

\* C2 witness: a vote has been flipped, and the flipped vote now stands as a
\* downvote on a chat message.
C2_Witness ==
    /\ flipped
    /\ \E i \in 1 .. Len(chatMessages) :
           /\ ~chatMessages[i].System
           /\ chatMessages[i].Upvotes = 0
           /\ chatMessages[i].Downvotes = 1

\* Users whose direction on record for an id is dir.
Tally(messageID, dir) ==
    Cardinality({u \in DOMAIN userVotes :
                    MapGet(userVotes[u], messageID) = dir})

\* C3: with the sessions voting concurrently on one message, whenever no
\* vote is inside the counters' critical section the message's upvotes are
\* the number of voters on record with Up, its downvotes the number on record
\* with Down, and once all N voters are on record upvotes + downvotes = N.
C3_NoLostVotes ==
    chatMutex = 0 =>
        \A id \in {chatMessages[i].UniqueID : i \in 1 .. Len(chatMessages)} :
            LET m == chatMessages[FindMessage(chatMessages, id)]
            IN  /\ m.Upvotes = Tally(id, 1)
                /\ m.Downvotes = Tally(id, -1)
                /\ (\A u \in Users : Recorded(u, id) # 0)
                   => m.Upvotes + m.Downvotes = Cardinality(Users)

\* C3 witness: every voter has cast exactly one vote (nothing was refused,
\* nothing flipped), in both directions, and all calls have returned.
C3_Witness ==
    /\ \A s \in Sessions : pc[s] = "idle" /\ err[s] = ErrNil
    /\ ~flipped
    /\ voteMutex = 0 /\ chatMutex = 0
    /\ LET m == chatMessages[Len(chatMessages)]
       IN  /\ \A u \in Users : Recorded(u, m.UniqueID) # 0
           /\ m.Upvotes >= 1
           /\ m.Downvotes >= 1
           /\ m.Upvotes + m.Downvotes = Cardinality(Users)

\* Positions (1-based) of the chat messages, the entries that are not system
\* messages.
NonSystem(msgs) == {i \in 1 .. Len(msgs) : ~msgs[i].System}

\* C4: no system message is votable: every system message in the log has
\* upvotes = 0 and downvotes = 0, whatever the sessions have done.
C4_SystemNeverVoted ==
    \A i \in 1 .. Len(chatMessages) :
        chatMessages[i].System
        => chatMessages[i].Upvotes = 0 /\ chatMessages[i].Downvotes = 0

\* C5: when a NavigateUp or NavigateDown of a session in selection mode
\* returns, selectedMessage does not point at a system message (stated for
\* logs that hold a chat message the selection could be on).
C5_NavigationSkipsSystem ==
    [][\A s \in Sessions :
          (/\ isSelectMode[s]
           /\ pc[s] \in {"up", "downTest"}
           /\ pc'[s] = "idle"
           /\ NonSystem(chatMessages) # {})
          => ~chatMessages'[selectedMessage'[s] + 1].System]_vars

\* C6: the selection of a session in selection mode is an index of the
\* current log, 0 <= selectedMessage <= len(chatMessages) - 1, so that
\* chatMessages[selectedMessage] is in bounds.
C6_SelectionInBounds ==
    \A s \in Sessions :
        (status[s] = "on" /\ isSelectMode[s])
        => /\ 0 <= selectedMessage[s]
           /\ selectedMessage[s] <= Len(chatMessages) - 1

\* C6 witness: a session in selection mode has seen the log grow to its full
\* length with other connections' entries (its refresh tick put the selection
\* on the last index) and has then navigated up to index 0.
C6_Witness ==
    \E s \in Sessions :
        /\ Ready(s)
        /\ isSelectMode[s]
        /\ Len(chatMessages) = MaxLog
        /\ lastMessageCount[s] = MaxLog
        /\ selectedMessage[s] = 0
        /\ \E i \in 1 .. Len(origin) : origin[i][1] \notin {0, s}

\* The 0-based index of the most recent chat message of a log that has one.
LastNonSystem(msgs) ==
    (CHOOSE i \in NonSystem(msgs) : \A j \in NonSystem(msgs) : j <= i) - 1

\* C7: when ToggleMode takes a session from input to selection mode and the
\* log holds a chat message, selectedMessage becomes the index of the most
\* recent one.
C7_AnchorOnLastNonSystem ==
    [][\A s \in Sessions :
          (/\ pc[s] = "idle" /\ pc'[s] = "idle"
           /\ ~isSelectMode[s]
           /\ isSelectMode'[s]
           /\ NonSystem(chatMessages) # {})
          => selectedMessage'[s] = LastNonSystem(chatMessages)]_vars

\* C8: a submission whose content is empty or longer than 280 characters
\* never enters the log: every chat message in the log has a content of 1 to
\* 280 characters.
C8_ContentLengthValid ==
    \A i \in NonSystem(chatMessages) :
        /\ 1 <= Len(chatMessages[i].Content)
        /\ Len(chatMessages[i].Content) <= CharLimit

\* Entries of one caller appear in the order of that caller's calls.
CallOrderKept(org) ==
    \A i, j \in 1 .. Len(org) :
        (i < j /\ org[i][1] = org[j][1]) => org[i][2] < org[j][2]

\* C9: under concurrent addMessage calls the log is append-only.  No step
\* shortens it or changes an entry it holds; the step that completes an
\* append adds exactly one entry, the caller's, at the end; the entries of
\* each connection stand in the order of its calls, none of them missing.
C9_AppendOnly ==
    [][/\ Len(chatMessages') >= Len(chatMessages)
       /\ \A i \in 1 .. Len(chatMessages) :
              chatMessages'[i] = chatMessages[i] /\ origin'[i] = origin[i]
       /\ \A s \in Sessions :
              IF pc[s] = "aStore" /\ pc'[s] = "idle"
              THEN /\ Len(chatMessages') = Len(chatMessages) + 1
                   /\ chatMessages'[Len(chatMessages')].Content = loc[s].text
                   /\ origin'[Len(origin')] = NextCall(s)
              ELSE TRUE
       /\ (\A s \in Sessions : ~(pc[s] = "aStore" /\ pc'[s] = "idle"))
          => Len(chatMessages') = Len(chatMessages)
       /\ CallOrderKept(origin')
       /\ \A s \in Sessions :
              {origin'[i][2] : i \in {j \in 1 .. Len(origin') :
                                         origin'[j][1] = s}}
              = 1 .. loc'[s].calls]_vars

\* C9 witness: every call has returned, the connections' entries interleave
\* in the log (an entry of another connection stands between two entries of
\* one connection), and all MaxAppends chat messages are in.
C9_Witness ==
    /\ \A s \in Sessions : pc[s] = "idle"
    /\ chatMutex = 0
    /\ Cardinality(NonSystem(chatMessages)) = MaxAppends
    /\ \E i, j, k \in 1 .. Len(origin) :
           /\ i < j /\ j < k
           /\ origin[i][1] # 0
           /\ origin[i][1] = origin[k][1]
           /\ origin[j][1] \notin {0, origin[i][1]}

\* C10: ids identify chat messages: no two distinct chat messages of the log
\* carry the same UniqueID.
C10_UniqueIDs ==
    \A i, j \in NonSystem(chatMessages) :
        i # j => chatMessages[i].UniqueID # chatMessages[j].UniqueID

\* Sessions whose connection is open.
Connected == {s \in Sessions : status[s] = "on"}

\* C11: the presence count is non-negative and equals the number of
\* connected clients, however their connections have ended.
C11_PresenceMatchesConnected ==
    /\ onlineUsers >= 0
    /\ onlineUsers = Cardinality(Connected)

\* C13: a system message is appended to the log when a client connects and
\* when a client disconnects.
C13_ConnectDisconnectAnnounced ==
    [][\A s \in Sessions :
          (status'[s] # status[s])
          => /\ Len(chatMessages') = Len(chatMessages) + 1
             /\ chatMessages'[Len(chatMessages')].System]_vars

\* Sessions inside a call that takes a lock.
InCall == {s \in Sessions : pc[s] # "idle"}

\* A session whose Lock or RLock call cannot return in this state.
Blocked(s) ==
    /\ pc[s] \in {"vLock", "vChat", "aLock", "tRLock", "uLock"}
    /\ ~ENABLED Acquire(s)

\* The sessions a blocked session waits for: the holders of the mutex, and
\* for a reader the writers whose Lock call is pending.
WaitsOn(s) ==
    CASE pc[s] = "vLock" -> {t \in Sessions : voteMutex = t}
      [] pc[s] \in {"vChat", "aLock"} ->
             {t \in Sessions : chatMutex = t} \cup Readers
      [] pc[s] = "tRLock" ->
             {t \in Sessions : chatMutex = t} \cup WritersWaiting
      [] pc[s] = "uLock" -> {t \in Sessions : usersMutex = t}
      [] OTHER -> {}

RECURSIVE CanFinish(_, _)
\* Sessions whose call can return: those not blocked, then, round by round,
\* those waiting only for sessions already known to finish.
CanFinish(done, rounds) ==
    IF rounds = 0 THEN done
    ELSE CanFinish(done \cup {s \in InCall : /\ WaitsOn(s) # {}
                                              /\ WaitsOn(s) \subseteq done},
                   rounds - 1)

\* C12: no deadlock is reachable.  In every state every session inside a
\* call either can take its next step or waits, directly or through a chain
\* of waiting sessions, for sessions that can: no session waits for a mutex
\* nobody will release, and no sessions wait for each other in a cycle.
C12_NoDeadlock ==
    InCall \subseteq CanFinish({s \in InCall : ~Blocked(s)}, NumSessions)

\* C12 witness: a vote that holds voteMutex waits for chatMutex, which an
\* append of another session holds, while no presence update is in progress.
C12_Witness ==
    \E s, t \in Sessions :
        /\ pc[s] = "vChat" /\ Blocked(s)
        /\ voteMutex = s
        /\ chatMutex = t
        /\ pc[t] = "aStore"
        /\ usersMutex = 0

\* C14: the handlers read the live log only while no other session is
\* writing it.  The "u"/"d" branch reads len(chatMessages) and the selected
\* entry before it calls voteMessage; stated for that read: it happens in no
\* state where another session holds chatMutex for writing.
C14_NoUnlockedReadDuringWrite ==
    [][\A s \in Sessions :
          (pc[s] = "idle" /\ pc'[s] = "vLock")
          => chatMutex \notin Sessions \ {s}]_vars

\* C15: a refresh tick that finds the log length changed sets
\* lastMessageCount to the length and selectedMessage to the index of the
\* newest chat message; one that finds it unchanged changes neither.
C15_RefreshReanchors ==
    [][\A s \in Sessions :
          RefreshTick(s)
          => IF Len(chatMessages) # lastMessageCount[s]
             THEN /\ lastMessageCount'[s] = Len(chatMessages)
                  /\ NonSystem(chatMessages) # {}
                     => selectedMessage'[s] = LastNonSystem(chatMessages)
             ELSE /\ lastMessageCount'[s] = lastMessageCount[s]
                  /\ selectedMessage'[s] = selectedMessage[s]]_vars

\* C16: a successful vote of a session in selection mode changes the
\* counters of the entry at its selectedMessage and of no other entry, and
\* leaves the log length unchanged.
C16_VoteChangesSelectedOnly ==
    [][\A s \in Sessions : \A voteType \in {1, -1} :
          (/\ KeyVote(s, voteType)
           /\ VoteGuard(s)
           /\ voteMessage(s, SelectedID(s), voteType).err = ErrNil)
          => /\ Len(chatMessages') = Len(chatMessages)
             /\ \A j \in 1 .. Len(chatMessages) :
                    j # selectedMessage[s] + 1
                    => /\ chatMessages'[j].Upvotes = chatMessages[j].Upvotes
                       /\ chatMessages'[j].Downvotes =
                              chatMessages[j].Downvotes]_vars

\* C17: under any interleaving of votes and flips every entry's upvotes and
\* downvotes are at least 0.
C17_CountersNonNegative ==
    \A i \in 1 .. Len(chatMessages) :
        chatMessages[i].Upvotes >= 0 /\ chatMessages[i].Downvotes >= 0

\* C17 witness: all calls have returned, a vote has been flipped, and a
\* counter that was raised is back at 0: every voter stands on Down.
C17_Witness ==
    /\ \A s \in Sessions : pc[s] = "idle"
    /\ flipped
    /\ LET m == chatMessages[Len(chatMessages)]
       IN  /\ \A u \in Users : Recorded(u, m.UniqueID) = -1
           /\ m.Upvotes = 0
           /\ m.Downvotes = Cardinality(Users)

\* strings.TrimSpace on the values the text area is given here.
TrimSpace(text) == IF text = " " THEN "" ELSE text

\* C18: a submit in input mode whose text is empty after trimming appends
\* nothing: the log is unchanged.
C18_BlankSubmitIgnored ==
    [][\A s \in Sessions : \A text \in Texts :
          (KeyEnter(s, text) /\ ~isSelectMode[s] /\ TrimSpace(text) = "")
          => chatMessages' = chatMessages]_vars

\* C19: after a successful submit the session's lastMessageCount is the
\* length of the log it appended to, so that its next refresh tick finds no
\* change in its own message.
C19_SubmitAdvancesCount ==
    [][\A s \in Sessions : \A text \in Texts :
          (KeyEnter(s, text) /\ SubmitAccepted(s, text))
          => lastMessageCount'[s] = Len(chatMessages')]_vars

\* C20: in input mode the navigation and vote keys leave the selection, the
\* log (so every counter) and the ledger unchanged and start no loop; in
\* selection mode Enter leaves the log unchanged.
C20_ModeGating ==
    [][\A s \in Sessions :
          /\ (/\ ~isSelectMode[s]
              /\ \/ KeyUp(s)
                 \/ KeyDown(s)
                 \/ \E voteType \in {1, -1} : KeyVote(s, voteType))
             => /\ selectedMessage' = selectedMessage
                /\ chatMessages' = chatMessages
                /\ userVotes' = userVotes
                /\ lastVote' = lastVote
                /\ pc' = pc
          /\ (isSelectMode[s] /\ \E text \in Texts : KeyEnter(s, text))
             => chatMessages' = chatMessages]_vars

\* C20 witness: the last key passed over was a vote key pressed in input
\* mode; a session is in input mode, the log holds a chat message and no
\* counter of the log has moved.
C20_Witness ==
    /\ ignored \in {"u", "d"}
    /\ \E s \in Sessions : Ready(s) /\ ~isSelectMode[s]
    /\ NonSystem(chatMessages) # {}
    /\ \A i \in 1 .. Len(chatMessages) :
           chatMessages[i].Upvotes = 0 /\ chatMessages[i].Downvotes = 0

\* C21: while the log holds no chat message (every entry is a system
\* message), an iteration of the KeyUp or KeyDown loop of a session in
\* selection mode leaves its selectedMessage where it was.
C21_NothingToSelect ==
    [][\A s \in Sessions :
          (/\ isSelectMode[s]
           /\ NonSystem(chatMessages) = {}
           /\ (UpStep(s) \/ DownStep(s)))
          => selectedMessage'[s] = selectedMessage[s]]_vars

\* C22: a KeyUp or KeyDown loop that a session has entered is left again,
\* whatever the log holds, also when the entry at index 0 or len-1 is a
\* system message and while other sessions append.
C22_NavigationTerminates ==
    \A s \in Sessions :
        (pc[s] \in {"up", "down", "downTest"}) ~> (pc[s] = "idle")

\* C22 witness: a KeyDown loop stands at its exit test on the last index,
\* which it moved to and which holds a system message, behind a chat message.
C22_Witness ==
    \E s \in Sessions :
        /\ pc[s] = "downTest"
        /\ selectedMessage[s] = Len(chatMessages) - 1
        /\ At(selectedMessage[s]).System
        /\ \E i \in NonSystem(chatMessages) : i < Len(chatMessages)

\* C23: with every pending refresh tick eventually delivered, from some
\* point on (the log has stopped growing) every session that is connected
\* has lastMessageCount equal to the length of the log.
C23_EventuallyObserved ==
    \A s \in Sessions :
        <>[](status[s] = "on" => lastMessageCount[s] = Len(chatMessages))

\* C23 witness: the log is full, its last entry is a chat message submitted
\* by one session, and another connected session has counted it.
C23_Witness ==
    \E s, t \in Sessions :
        /\ s # t
        /\ status[s] = "on" /\ status[t] = "on"
        /\ Len(chatMessages) = MaxLog
        /\ ~chatMessages[Len(chatMessages)].System
        /\ origin[Len(chatMessages)][1] = t
        /\ lastMessageCount[s] = Len(chatMessages)

\* C24: no session has more than one checkNewMessages command in flight.
C24_AtMostOnePending == \A s \in Sessions : pending[s] <= 1

====
